---- MODULE Spec2Model ----
(***************************************************************************)
(* The climate dashboard of src/app.py as a state machine.                 *)
(*                                                                         *)
(* The script is re-executed top to bottom on every interaction.  A run    *)
(* of one session shares nothing with another run but the st.cache_data    *)
(* entry of load_data and the files heatmap.png / scatterplot.png in the   *)
(* working directory.  A run in which no download button is pressed is     *)
(* therefore one action (ScriptRun); a run in which a download button is   *)
(* pressed is split at its two file operations (DownloadClick, SaveFigure, *)
(* OfferDownload) so that the runs of concurrent sessions interleave.      *)
(*                                                                         *)
(* Numbers.  A cell of the file is <<>> (empty) or <<v>> (the reading v).  *)
(* A number of the data frame is a record [nan, v] with v counted in       *)
(* halves, so that the median of an even number of readings is exact.  A   *)
(* mean is [nan, sum, cnt] (sum in halves) and means are compared by       *)
(* cross-multiplication: the arithmetic is exact where the program's is    *)
(* float64.  Any comparison with NaN is false, as in IEEE 754.             *)
(*                                                                         *)
(* Columns.  Of the ten columns the model keeps Year, Country and two of   *)
(* the eight indicators (the two the ranking and the default selection     *)
(* use); the loop of lines 24-26 and the aggregation of lines 29-38 treat  *)
(* every indicator column alike.                                           *)
(***************************************************************************)
EXTENDS Integers, Sequences, FiniteSets, TLC

VARIABLES
    file,       \* climate_change_dataset.csv on disk
    cache,      \* the st.cache_data entry of load_data()
    fileReads,  \* how many times pd.read_csv has read the file
    run,        \* the names bound and the elements shown by the latest script run
    disk,       \* heatmap.png and scatterplot.png in the working directory
    sess        \* per browser session: the run in which a download button was pressed

vars == <<file, cache, fileReads, run, disk, sess>>

----------------------------------------------------------------------------
(* Bounds *)

MaxRows == 3          \* rows of an input file, loader specification
MaxSessionRows == 2   \* rows of an input file, session specification
MaxEditions == 3      \* editions of the data set, cache and download specifications
MaxReads == 3         \* reads of the file that are counted
MaxSessions == 2      \* concurrent browser sessions
RankCountries == 11   \* countries of a ranking file

Readings == {1, 2}    \* the readings a cell of an indicator column can hold
LoaderTemperatures == {1}   \* ... of the temperature column, loader specification

----------------------------------------------------------------------------
(* Program constants *)

NumColumns == 10      \* the ten labels of lines 19-21
TopN == 10            \* nlargest(10, ...) of line 215

\* Country names in Python's string order (sorted() of line 82, groupby's key order).
CountryNames ==
    <<"A", "All", "B", "C", "D", "E", "F", "G", "H", "I", "J", "K", "L", "M", "N">>

AllLabel == "All"
metric_options == <<"Avg_Temperature", "CO2_Emissions">>
default_metrics == {"Avg_Temperature", "CO2_Emissions"}
MetricSet == {metric_options[i] : i \in 1..Len(metric_options)}

ErrNotFound == "Error: climate_change_dataset.csv not found."
ErrGeneric == "An error occurred during data loading or preprocessing"

----------------------------------------------------------------------------
(* Numbers with NaN *)

NaN == [nan |-> TRUE, v |-> 0]
Num(x) == [nan |-> FALSE, v |-> x]
NaC == "NaN"     \* the float nan that stands in an object column for a missing text

NaNMean == [nan |-> TRUE, sum |-> 0, cnt |-> 1]

\* a >= b and a > b on means; false when either is NaN
MeanGE(a, b) == ~a.nan /\ ~b.nan /\ a.sum * b.cnt >= b.sum * a.cnt
MeanGT(a, b) == ~a.nan /\ ~b.nan /\ a.sum * b.cnt > b.sum * a.cnt

Min(a, b) == IF a <= b THEN a ELSE b

RECURSIVE SumSeq(_)
SumSeq(s) == IF s = <<>> THEN 0 ELSE Head(s) + SumSeq(Tail(s))

Column(frame, col) == [i \in 1..Len(frame) |-> frame[i][col]]
NotNaN(x) == ~x.nan
Values(column) == LET kept == SelectSeq(column, NotNaN) IN [i \in 1..Len(kept) |-> kept[i].v]

----------------------------------------------------------------------------
(* pd.read_csv and the positional renaming, lines 17-21 *)

NoFile == [exists |-> FALSE, ncols |-> 0, rows |-> <<>>]

ParseNumber(cell) == IF cell = <<>> THEN NaN ELSE Num(2 * cell[1])
ParseText(cell) == IF cell \in {"", "NaN"} THEN NaC ELSE cell

ParseRow(r) ==
    [Year |-> r.Year,
     Country |-> ParseText(r.Country),
     Avg_Temperature |-> ParseNumber(r.Avg_Temperature),
     CO2_Emissions |-> ParseNumber(r.CO2_Emissions)]

read_csv(f) ==
    IF ~f.exists
    THEN [exc |-> "FileNotFoundError", frame |-> <<>>, ncols |-> 0]
    ELSE [exc |-> "", frame |-> [i \in 1..Len(f.rows) |-> ParseRow(f.rows[i])],
          ncols |-> f.ncols]

\* df.columns = [...ten labels...] raises ValueError on any other column count
rename_columns(parsed) == IF parsed.ncols = NumColumns THEN "" ELSE "ValueError"

----------------------------------------------------------------------------
(* Imputation, lines 24-26 *)

RECURSIVE InsertAsc(_, _)
InsertAsc(sorted, x) ==
    IF sorted = <<>> THEN <<x>>
    ELSE IF Head(sorted) <= x THEN <<Head(sorted)>> \o InsertAsc(Tail(sorted), x)
    ELSE <<x>> \o sorted

RECURSIVE SortAsc(_)
SortAsc(s) == IF s = <<>> THEN <<>> ELSE InsertAsc(SortAsc(Tail(s)), Head(s))

\* Series.median(): NaN skipped; NaN when nothing is left
median(column) ==
    LET s == SortAsc(Values(column))
        n == Len(s)
    IN  IF n = 0 THEN NaN
        ELSE IF n % 2 = 1 THEN Num(s[(n + 1) \div 2])
        ELSE Num((s[n \div 2] + s[n \div 2 + 1]) \div 2)

fillna(column, value) ==
    [i \in 1..Len(column) |-> IF column[i].nan THEN value ELSE column[i]]

\* The numeric columns other than Year.  (A Country column that is empty in every
\* row is float64 too; its median is NaN and filling it changes nothing.)
impute(frame) ==
    LET t == fillna(Column(frame, "Avg_Temperature"), median(Column(frame, "Avg_Temperature")))
        c == fillna(Column(frame, "CO2_Emissions"), median(Column(frame, "CO2_Emissions")))
    IN  [i \in 1..Len(frame) |->
            [frame[i] EXCEPT !.Avg_Temperature = t[i], !.CO2_Emissions = c[i]]]

----------------------------------------------------------------------------
(* Aggregation and sorting, lines 29-41 *)

CountrySet(frame) == {frame[i].Country : i \in 1..Len(frame)}

\* the group keys: NaN keys are dropped, the rest come in sorted order
group_keys(frame) ==
    LET IsKey(c) == c \in CountrySet(frame) /\ c # NaC IN SelectSeq(CountryNames, IsKey)

\* the mean aggregation: NaN skipped; NaN for a group with no value
mean(column) ==
    LET vs == Values(column)
    IN  IF Len(vs) = 0 THEN NaNMean ELSE [nan |-> FALSE, sum |-> SumSeq(vs), cnt |-> Len(vs)]

group(frame, country) == LET In(r) == r.Country = country IN SelectSeq(frame, In)

aggregate(frame) ==
    LET ks == group_keys(frame)
    IN  [k \in 1..Len(ks) |->
            [Country |-> ks[k],
             Avg_Temp |-> mean(Column(group(frame, ks[k]), "Avg_Temperature")),
             Avg_CO2_Emissions |-> mean(Column(group(frame, ks[k]), "CO2_Emissions"))]]

\* whether row a stays ahead of row b, b coming later in the frame: NaN goes last,
\* equal keys keep their order
StaysAhead(a, b) ==
    IF b.Avg_CO2_Emissions.nan THEN TRUE
    ELSE IF a.Avg_CO2_Emissions.nan THEN FALSE
    ELSE MeanGE(a.Avg_CO2_Emissions, b.Avg_CO2_Emissions)

RECURSIVE InsertDesc(_, _)
InsertDesc(sorted, row) ==
    IF sorted = <<>> THEN <<row>>
    ELSE IF StaysAhead(Head(sorted), row)
         THEN <<Head(sorted)>> \o InsertDesc(Tail(sorted), row)
         ELSE <<row>> \o sorted

RECURSIVE SortDesc(_, _)
SortDesc(done, rest) ==
    IF rest = <<>> THEN done ELSE SortDesc(InsertDesc(done, Head(rest)), Tail(rest))

sort_values(frame) == SortDesc(<<>>, frame)

----------------------------------------------------------------------------
(* load_data, lines 15-49, and its st.cache_data wrapper, line 14 *)

load_data(f) ==
    LET parsed == read_csv(f)
    IN  IF parsed.exc = "FileNotFoundError"
        THEN [ok |-> FALSE, error |-> ErrNotFound, df |-> <<>>, country_stats |-> <<>>]
        ELSE IF rename_columns(parsed) # ""
        THEN [ok |-> FALSE, error |-> ErrGeneric, df |-> <<>>, country_stats |-> <<>>]
        ELSE LET df == impute(parsed.frame)
             IN  [ok |-> TRUE, error |-> "", df |-> df,
                  country_stats |-> sort_values(aggregate(df))]

NoEntry == [hit |-> FALSE, df |-> <<>>, country_stats |-> <<>>]

\* A call of the cached function: the stored value on a hit; on a miss the function
\* runs and its return value is stored.  A call that raises (st.stop() raises
\* StopException) stores nothing.
\* (faulty variant: the return value is never stored)
cached_call_uncached(entry, f) ==
    LET r == load_data(f)
    IN  [ok |-> r.ok, error |-> r.error, df |-> r.df, country_stats |-> r.country_stats,
         entry |-> entry, reads |-> IF f.exists THEN 1 ELSE 0]
\* the wrapper as it is
cached_call(entry, f) ==
    IF entry.hit
    THEN [ok |-> TRUE, error |-> "", df |-> entry.df, country_stats |-> entry.country_stats,
          entry |-> entry, reads |-> 0]
    ELSE LET r == load_data(f)
         IN  [ok |-> r.ok, error |-> r.error, df |-> r.df, country_stats |-> r.country_stats,
              entry |-> IF r.ok
                        THEN [hit |-> TRUE, df |-> r.df, country_stats |-> r.country_stats]
                        ELSE entry,
              reads |-> IF f.exists THEN 1 ELSE 0]

----------------------------------------------------------------------------
(* The script below line 51 *)

NoView == [kind |-> "none", data |-> {}]

NoRun ==
    [status |-> "none", error |-> "", executed |-> <<>>, bound |-> FALSE,
     df |-> <<>>, country_stats |-> <<>>, country_list |-> <<>>, choice |-> 0,
     selected_country |-> "", selected_metrics |-> {}, df_filtered |-> <<>>,
     trend |-> NoView, corr |-> NoView, scatter |-> NoView, top_10_co2 |-> <<>>]

\* (faulty variant: the error is shown and the script goes on)
stop_keeps_running(message) ==
    [NoRun EXCEPT !.status = "done", !.error = message,
                  !.executed = <<"load_data", "sidebar", "filter">>,
                  !.country_list = <<AllLabel>>, !.choice = 1,
                  !.selected_country = AllLabel]
\* lines 44-49: st.error(...) then st.stop(), which ends the script run
error_and_stop(message) ==
    [NoRun EXCEPT !.status = "halted", !.error = message, !.executed = <<"load_data">>]

\* line 82: sorted() raises TypeError when nan stands among strings
country_list(df) ==
    LET u == CountrySet(df)
        In(c) == c \in u
    IN  IF NaC \in u /\ u # {NaC}
        THEN [exc |-> "TypeError", list |-> <<>>]
        ELSE [exc |-> "", list |-> <<AllLabel>> \o SelectSeq(CountryNames \o <<NaC>>, In)]

\* == on a Country cell: nan equals nothing, itself included
CountryEq(cell, value) == cell # NaC /\ value # NaC /\ cell = value

\* lines 102-105
filter(df, selected_country) ==
    LET Keep(r) == CountryEq(r.Country, selected_country)
    IN  IF selected_country # AllLabel THEN SelectSeq(df, Keep) ELSE df

\* (faulty variant: the chart is drawn without the test of line 112)
trend_always_charts(df_filtered, metrics) ==
    [kind |-> "chart", data |-> {[metric |-> m] : m \in metrics}]
\* lines 112-131
trend_view(df_filtered, metrics) ==
    IF metrics = {}
    THEN [kind |-> "info", data |-> {}]
    ELSE [kind |-> "chart",
          data |-> {[Year |-> df_filtered[i].Year, metric |-> m,
                     mean |-> LET SameYear(r) == r.Year = df_filtered[i].Year
                              IN  mean(Column(SelectSeq(df_filtered, SameYear), m))] :
                        i \in 1..Len(df_filtered), m \in metrics}]

\* DataFrame.corr(): Pearson over the rows where both cells are present.  The
\* coefficient is num / sqrt(den2); NaN when no row is left or a variance is 0.
pearson(frame, a, b) ==
    LET Both(r) == ~r[a].nan /\ ~r[b].nan
        rows == SelectSeq(frame, Both)
        n == Len(rows)
        x == [i \in 1..n |-> rows[i][a].v]
        y == [i \in 1..n |-> rows[i][b].v]
        vx == n * SumSeq([i \in 1..n |-> x[i] * x[i]]) - SumSeq(x) * SumSeq(x)
        vy == n * SumSeq([i \in 1..n |-> y[i] * y[i]]) - SumSeq(y) * SumSeq(y)
        cxy == n * SumSeq([i \in 1..n |-> x[i] * y[i]]) - SumSeq(x) * SumSeq(y)
    IN  IF n = 0 \/ vx * vy = 0
        THEN [row |-> a, col |-> b, nan |-> TRUE, num |-> 0, den2 |-> 1]
        ELSE [row |-> a, col |-> b, nan |-> FALSE, num |-> cxy, den2 |-> vx * vy]

\* (faulty variant: the diagonal is set to 1.0 instead of computed)
corr_diagonal_of_ones(df_filtered, metrics) ==
    IF Cardinality(metrics) < 2
    THEN [kind |-> "info", data |-> {}]
    ELSE [kind |-> "matrix",
          data |-> {IF a = b THEN [row |-> a, col |-> b, nan |-> FALSE, num |-> 1, den2 |-> 1]
                    ELSE pearson(df_filtered, a, b) : a \in metrics, b \in metrics}]
\* lines 142-149
corr_view(df_filtered, metrics) ==
    IF Cardinality(metrics) < 2
    THEN [kind |-> "info", data |-> {}]
    ELSE [kind |-> "matrix",
          data |-> {pearson(df_filtered, a, b) : a \in metrics, b \in metrics}]

\* lines 166-191, the two axis selectors left at their defaults (lines 97-98)
scatter_x_metric == metric_options[2]
scatter_y_metric == metric_options[1]

scatter_view(df_filtered, selected_country) ==
    IF scatter_x_metric \in MetricSet /\ scatter_y_metric \in MetricSet
    THEN [kind |-> "chart",
          data |-> {[x |-> df_filtered[i][scatter_x_metric], y |-> df_filtered[i][scatter_y_metric],
                     color |-> IF selected_country = AllLabel THEN df_filtered[i].Year ELSE 0] :
                        i \in 1..Len(df_filtered)}]
    ELSE [kind |-> "warning", data |-> {}]

\* (faulty variant: the last n rows of the frame)
nlargest_smallest(n, frame) ==
    LET m == Min(n, Len(frame)) IN SubSeq(frame, Len(frame) - m + 1, Len(frame))
\* line 215, DataFrame.nlargest(n, 'Avg_CO2_Emissions'), keep='first': the rows with a
\* value by descending value, ties in frame order, then the rows without one
nlargest(n, frame) ==
    LET Has(r) == ~r.Avg_CO2_Emissions.nan
        Lacks(r) == r.Avg_CO2_Emissions.nan
        ranked == SortDesc(<<>>, SelectSeq(frame, Has)) \o SelectSeq(frame, Lacks)
    IN  SubSeq(ranked, 1, Min(n, Len(ranked)))

AllSteps ==
    <<"load_data", "sidebar", "filter", "trend", "correlation", "scatter",
      "summary", "ranking", "insights", "footer">>

\* lines 82-266 for one choice of the country selector (an index into the list) and
\* of the metric multiselect
render(df, country_stats, list, choice, metrics) ==
    LET selected_country == list[choice]
        df_filtered == filter(df, selected_country)
    IN  [status |-> "done", error |-> "", executed |-> AllSteps, bound |-> TRUE,
         df |-> df, country_stats |-> country_stats, country_list |-> list,
         choice |-> choice, selected_country |-> selected_country,
         selected_metrics |-> metrics, df_filtered |-> df_filtered,
         trend |-> trend_view(df_filtered, metrics),
         corr |-> corr_view(df_filtered, metrics),
         scatter |-> scatter_view(df_filtered, selected_country),
         top_10_co2 |-> nlargest(TopN, country_stats)]

\* One execution of the script, no download button pressed.  choices and metricSets
\* are what the user may have set the two sidebar widgets to.
ScriptRunWith(choices, metricSets) ==
    LET ld == cached_call(cache, file)
    IN  /\ fileReads + ld.reads <= MaxReads
        /\ cache' = ld.entry
        /\ fileReads' = fileReads + ld.reads
        /\ UNCHANGED <<file, disk, sess>>
        /\ IF ~ld.ok
           THEN run' = error_and_stop(ld.error)
           ELSE LET cl == country_list(ld.df)
                IN  IF cl.exc # ""
                    THEN run' = [NoRun EXCEPT !.status = "crashed", !.error = cl.exc,
                                              !.executed = <<"load_data", "sidebar">>,
                                              !.bound = TRUE, !.df = ld.df,
                                              !.country_stats = ld.country_stats]
                    ELSE \E choice \in choices \cap (1..Len(cl.list)), metrics \in metricSets :
                            run' = render(ld.df, ld.country_stats, cl.list, choice, metrics)

\* any setting of the widgets
ScriptRun == ScriptRunWith(1..(Len(CountryNames) + 2), SUBSET MetricSet)

\* the first render of a session: every widget at its default
InitialRender == ScriptRunWith({1}, {default_metrics})

----------------------------------------------------------------------------
(* Download buttons, lines 151-159 and 181-189, one step per file operation *)

NoImage == [by |-> 0, name |-> ""]
FileNames == {"heatmap.png", "scatterplot.png"}
IdleSession == [pc |-> "idle", fig |-> NoImage, offered |-> NoImage]

\* fig_corr.savefig("heatmap.png"), fig_scatter.write_image("scatterplot.png")
\* (faulty variant: the write is lost)
write_file_lost(files, fig) == files
write_file(files, fig) == [files EXCEPT ![fig.name] = fig]

\* open(name, "rb") handed to st.download_button, which reads it at once
read_file(files, name) == files[name]

\* A rerun with one download button pressed, from the top of the script to the
\* figure the button belongs to (widgets at their defaults).
DownloadClick(s, button) ==
    LET ld == cached_call(cache, file)
        cl == country_list(ld.df)
        shown == render(ld.df, ld.country_stats, cl.list, 1, default_metrics)
    IN  /\ sess[s].pc = "idle"
        /\ fileReads + ld.reads <= MaxReads
        /\ ld.ok /\ cl.exc = ""
        /\ IF button = "heatmap.png" THEN shown.corr.kind = "matrix"
                                     ELSE shown.scatter.kind = "chart"
        /\ cache' = ld.entry
        /\ fileReads' = fileReads + ld.reads
        /\ sess' = [sess EXCEPT ![s] = [pc |-> "save", fig |-> [by |-> s, name |-> button],
                                        offered |-> NoImage]]
        /\ UNCHANGED <<file, run, disk>>

\* lines 152, 182
SaveFigure(s) ==
    /\ sess[s].pc = "save"
    /\ disk' = write_file(disk, sess[s].fig)
    /\ sess' = [sess EXCEPT ![s].pc = "offer"]
    /\ UNCHANGED <<file, cache, fileReads, run>>

\* lines 153-159, 183-189; the lines that follow in the run write nothing shared
OfferDownload(s) ==
    /\ sess[s].pc = "offer"
    /\ sess' = [sess EXCEPT ![s].pc = "idle",
                            ![s].offered = read_file(disk, sess[s].fig.name)]
    /\ UNCHANGED <<file, cache, fileReads, run, disk>>

----------------------------------------------------------------------------
(* Input files *)

CellsOf(readings) == {<<>>} \cup {<<v>> : v \in readings}
CountryTexts == {"A", "All", ""}
\* row i of a file is an observation of 2000 or 2001, by turns
YearOfRow(i) == 2000 + ((i - 1) % 2)

TableFile(rows) == [exists |-> TRUE, ncols |-> NumColumns, rows |-> rows]
ShortFile == [exists |-> TRUE, ncols |-> NumColumns - 1, rows |-> <<>>]

Table(k, c, t, e) ==
    [i \in 1..k |->
        [Year |-> YearOfRow(i), Country |-> c[i], Avg_Temperature |-> t[i],
         CO2_Emissions |-> e[i]]]

\* the file is absent, a column short, or a table of up to n rows
AnyFile(n, temperatures) ==
    \/ file = NoFile
    \/ file = ShortFile
    \/ \E k \in 0..n :
         \E c \in [1..k -> CountryTexts], t \in [1..k -> CellsOf(temperatures)],
            e \in [1..k -> CellsOf(Readings)] : file = TableFile(Table(k, c, t, e))

\* one row per country, for RankCountries countries
RankFile ==
    \E e \in [1..RankCountries -> {<<v>> : v \in Readings}] :
        file = TableFile(Table(RankCountries, [i \in 1..RankCountries |-> CountryNames[i]],
                               [i \in 1..RankCountries |-> <<1>>], e))

\* the k-th edition of the data set: k countries, one row each
Edition(k) ==
    Table(k, [i \in 1..k |-> CountryNames[i + 2]], [i \in 1..k |-> <<i>>], [i \in 1..k |-> <<k>>])
Editions == {TableFile(Edition(k)) : k \in 1..MaxEditions}

Start(sessions) ==
    /\ cache = NoEntry
    /\ fileReads = 0
    /\ run = NoRun
    /\ disk = [n \in FileNames |-> NoImage]
    /\ sess \in {[s \in 1..n |-> IdleSession] : n \in sessions}

----------------------------------------------------------------------------
(* Specifications *)

\* one session, any input file of up to MaxSessionRows rows, any widget setting
Init == AnyFile(MaxSessionRows, Readings) /\ Start({1})
Next == ScriptRun
Spec == Init /\ [][Next]_vars

\* the loader and the ranking on larger files, widgets at their defaults
InitLoad == (AnyFile(MaxRows, LoaderTemperatures) \/ RankFile) /\ Start({1})
NextLoad == InitialRender
SpecLoad == InitLoad /\ [][NextLoad]_vars

\* the file is replaced between runs
ReplaceFile ==
    /\ \E f \in ({NoFile, ShortFile} \cup Editions) \ {file} : file' = f
    /\ UNCHANGED <<cache, fileReads, run, disk, sess>>

InitCache == file \in {NoFile, ShortFile} \cup Editions /\ Start({1})
NextCache == ScriptRun \/ ReplaceFile
SpecCache == InitCache /\ [][NextCache]_vars

\* up to MaxSessions sessions press download buttons
InitDownload == file \in Editions /\ Start(1..MaxSessions)
PressDownload == \E s \in DOMAIN sess, button \in FileNames : DownloadClick(s, button)
Save == \E s \in DOMAIN sess : SaveFigure(s)
Offer == \E s \in DOMAIN sess : OfferDownload(s)
NextDownload == PressDownload \/ Save \/ Offer
SpecDownload == InitDownload /\ [][NextDownload]_vars

----------------------------------------------------------------------------
(* Properties *)

Rows(frame) == 1..Len(frame)
Loadable(f) == f.exists /\ f.ncols = NumColumns

\* the readings of column m that the file holds, in halves
Present(f, m) == {i \in 1..Len(f.rows) : f.rows[i][m] # <<>>}
Reading(f, m, i) == 2 * f.rows[i][m][1]

\* a is the k-th smallest reading of column m
IsKth(f, m, a, k) ==
    /\ Cardinality({i \in Present(f, m) : Reading(f, m, i) < a}) < k
    /\ k <= Cardinality({i \in Present(f, m) : Reading(f, m, i) <= a})

\* x is the median of the n readings of column m: the middle one, or the mean of the
\* two middle ones
IsMedian(f, m, x) ==
    LET n == Cardinality(Present(f, m))
    IN  /\ ~x.nan
        /\ \E i, j \in Present(f, m) :
              /\ IsKth(f, m, Reading(f, m, i), (n + 1) \div 2)
              /\ IsKth(f, m, Reading(f, m, j), n \div 2 + 1)
              /\ Reading(f, m, i) + Reading(f, m, j) = 2 * x.v

\* C1: after a load that returns, no indicator cell of the observation table is
\* missing, and every cell that was empty in the file holds the median of the
\* readings of its column over the whole file.
C1_NoMissingAfterLoad ==
    run.bound =>
        \A i \in Rows(run.df), m \in MetricSet :
            /\ ~run.df[i][m].nan
            /\ file.rows[i][m] = <<>> => IsMedian(file, m, run.df[i][m])

\* C2: a run whose load fails (file absent, or an exception while parsing) shows the
\* error and halts: no table is bound, nothing is cached, and no step of the script
\* after load_data has run; a run halts in no other case.
C2_LoadFailureHalts ==
    /\ (run.status # "none" /\ ~Loadable(file)) =>
          /\ run.status = "halted"
          /\ run.error = IF file.exists THEN ErrGeneric ELSE ErrNotFound
          /\ ~run.bound /\ run.df = <<>> /\ run.country_stats = <<>>
          /\ run.executed = <<"load_data">>
          /\ run.country_list = <<>> /\ run.choice = 0 /\ run.df_filtered = <<>>
          /\ run.trend = NoView /\ run.corr = NoView /\ run.scatter = NoView
          /\ run.top_10_co2 = <<>>
          /\ cache = NoEntry
    /\ run.status = "halted" => ~Loadable(file)

C2_Witness == run.status = "halted" /\ run.error = ErrNotFound /\ ~file.exists

\* C3: after a load that returns, the summary table has one row per distinct Country
\* value of the observation table (the values of df['Country'].unique()).
C3_OneRowPerCountryValue ==
    run.bound =>
        /\ Len(run.country_stats) = Cardinality(CountrySet(run.df))
        /\ {run.country_stats[k].Country : k \in Rows(run.country_stats)} = CountrySet(run.df)

\* C4: after a load that returns, the summary table is sorted descending by mean CO2:
\* summary[i].Avg_CO2_Emissions >= summary[i+1].Avg_CO2_Emissions for adjacent rows.
C4_SortedDescending ==
    run.bound =>
        \A k \in 1..(Len(run.country_stats) - 1) :
            MeanGE(run.country_stats[k].Avg_CO2_Emissions,
                   run.country_stats[k + 1].Avg_CO2_Emissions)

\* C5: the first option of the selector ("All") keeps every row; any other option
\* keeps exactly the rows whose Country equals the option, in every data set.
C5_FilterBySelection ==
    run.status = "done" =>
        IF run.choice = 1
        THEN Len(run.df_filtered) = Len(run.df)
        ELSE LET Matches(r) == CountryEq(r.Country, run.country_list[run.choice])
             IN  /\ \A i \in Rows(run.df_filtered) : Matches(run.df_filtered[i])
                 /\ run.df_filtered = SelectSeq(run.df, Matches)

IsOne(cell) == ~cell.nan /\ cell.num > 0 /\ cell.num * cell.num = cell.den2
Diagonal(view) == {c \in view.data : c.row = c.col}

\* metric m takes two different values over the rows of the frame
Varies(frame, m) ==
    \E i, j \in Rows(frame) : ~frame[i][m].nan /\ ~frame[j][m].nan /\ frame[i][m].v # frame[j][m].v

NoCellMissing(frame) == \A i \in Rows(frame), m \in MetricSet : ~frame[i][m].nan

\* C6 as stated: with exactly two metrics selected the correlation view is a 2x2
\* matrix whose two diagonal entries are 1.0, whatever the filtered table (stated
\* here for the non-empty filtered tables of files in which no cell is missing).
C6_DiagonalIsOne ==
    (run.status = "done" /\ Cardinality(run.selected_metrics) = 2
        /\ NoCellMissing(run.df) /\ run.df_filtered # <<>>) =>
        /\ run.corr.kind = "matrix"
        /\ {<<c.row, c.col>> : c \in run.corr.data}
             = run.selected_metrics \X run.selected_metrics
        /\ Cardinality(run.corr.data) = 4
        /\ \A c \in Diagonal(run.corr) : IsOne(c)

\* C6 amended: with exactly two metrics selected the correlation view is a 2x2 matrix;
\* the diagonal entry of a metric is 1.0 when the metric takes at least two different
\* values over the filtered rows, and NaN otherwise.
C6_DiagonalOneOrNaN ==
    (run.status = "done" /\ Cardinality(run.selected_metrics) = 2) =>
        /\ run.corr.kind = "matrix"
        /\ {<<c.row, c.col>> : c \in run.corr.data}
             = run.selected_metrics \X run.selected_metrics
        /\ Cardinality(run.corr.data) = 4
        /\ \A c \in Diagonal(run.corr) :
              IF Varies(run.df_filtered, c.row) THEN IsOne(c) ELSE c.nan

C6_Witness ==
    /\ run.status = "done" /\ Cardinality(run.selected_metrics) = 2
    /\ \E c \in Diagonal(run.corr) : IsOne(c)
    /\ \E c \in Diagonal(run.corr) : c.nan
    /\ Len(run.df_filtered) >= 2

RECURSIVE SumOver(_, _, _)
SumOver(frame, m, idx) ==
    IF idx = {} THEN 0
    ELSE LET i == CHOOSE i \in idx : TRUE IN frame[i][m].v + SumOver(frame, m, idx \ {i})

\* row r of the summary holds the arithmetic mean of its country's CO2 values
IsCountryMean(df, r) ==
    LET idx == {i \in Rows(df) : df[i].Country = r.Country /\ ~df[i].CO2_Emissions.nan}
    IN  IF idx = {} THEN r.Avg_CO2_Emissions.nan
        ELSE /\ ~r.Avg_CO2_Emissions.nan
             /\ r.Avg_CO2_Emissions.sum * Cardinality(idx)
                  = SumOver(df, "CO2_Emissions", idx) * r.Avg_CO2_Emissions.cnt

\* the rows of top are n rows of the summary (all of them when it has fewer), and no
\* row left out has a strictly larger mean than a row taken
IsTop(top, n, stats) ==
    /\ Len(top) = Min(n, Len(stats))
    /\ \A a, b \in Rows(top) : top[a].Country = top[b].Country => a = b
    /\ \A a \in Rows(top) : \E k \in Rows(stats) : stats[k] = top[a]
    /\ \A k \in Rows(stats) :
          (\A a \in Rows(top) : top[a] # stats[k]) =>
              \A a \in Rows(top) :
                  ~MeanGT(stats[k].Avg_CO2_Emissions, top[a].Avg_CO2_Emissions)

\* C7: the ranking holds the TopN summary rows of largest mean CO2 (all rows when
\* there are fewer), each mean being the arithmetic mean of the country's CO2 values;
\* no country left out has a strictly larger mean than one included, and the top-1
\* is a country of highest mean.
C7_RankingIsTopN ==
    run.status = "done" =>
        /\ \A k \in Rows(run.country_stats) : IsCountryMean(run.df, run.country_stats[k])
        /\ IsTop(run.top_10_co2, TopN, run.country_stats)
        /\ IsTop(nlargest(1, run.country_stats), 1, run.country_stats)

C7_Witness ==
    /\ run.status = "done"
    /\ Len(run.country_stats) > TopN
    /\ Len(run.top_10_co2) = TopN
    /\ \E k \in Rows(run.country_stats), a \in Rows(run.top_10_co2) :
          /\ \A b \in Rows(run.top_10_co2) : run.top_10_co2[b] # run.country_stats[k]
          /\ MeanGT(run.top_10_co2[a].Avg_CO2_Emissions,
                    run.country_stats[k].Avg_CO2_Emissions)

\* C8: in a run that reaches the views, the trend view is a chart exactly when a
\* metric is selected and the correlation view is a matrix exactly when two are;
\* otherwise the view is the informational prompt; either way the run goes on through
\* every later view.  A run that does not reach the views shows neither.
C8_ViewsGuarded ==
    /\ run.status = "done" =>
          /\ run.trend.kind = (IF run.selected_metrics # {} THEN "chart" ELSE "info")
          /\ run.corr.kind = (IF Cardinality(run.selected_metrics) >= 2 THEN "matrix" ELSE "info")
          /\ run.executed = AllSteps
          /\ run.scatter.kind # "none"
    /\ run.status # "done" => run.trend = NoView /\ run.corr = NoView

C8_Witness ==
    /\ run.status = "done"
    /\ Cardinality(run.selected_metrics) = 1
    /\ run.trend.kind = "chart" /\ run.corr.kind = "info"
    /\ run.choice > 1

\* C9 as stated: the file is read at most once, and the tables of every run are the
\* cached ones.
C9_ReadAtMostOnce ==
    /\ fileReads <= 1
    /\ run.bound => cache.hit /\ run.df = cache.df /\ run.country_stats = cache.country_stats

\* C9 amended: once a run has loaded the file successfully the entry never changes and
\* the file is never read again, and the tables of every run are the cached ones.  (A
\* load that fails caches nothing: the file is read once more by every run until one
\* succeeds.)
C9_CachedAfterSuccess ==
    /\ [](run.bound => cache.hit /\ run.df = cache.df /\ run.country_stats = cache.country_stats)
    /\ [][cache.hit => cache' = cache /\ fileReads' = fileReads]_vars

C9_Witness ==
    /\ cache.hit /\ run.status = "done" /\ fileReads >= 2
    /\ Loadable(file) /\ load_data(file).df # run.df

\* C10: a session that has been offered a download is offered what the fixed file held
\* when it read it back: a figure of that name saved by some session, and with a
\* single session the figure that session has just rendered.
C10_OfferedImage ==
    \A s \in DOMAIN sess :
        (sess[s].pc = "idle" /\ sess[s].fig # NoImage) =>
            /\ sess[s].offered.name = sess[s].fig.name
            /\ sess[s].offered.by \in DOMAIN sess
            /\ Cardinality(DOMAIN sess) = 1 => sess[s].offered = sess[s].fig

\* two sessions: one is offered the image the other rendered
C10_Witness ==
    \E s \in DOMAIN sess :
        /\ sess[s].pc = "idle" /\ sess[s].fig # NoImage
        /\ sess[s].offered.by # s /\ sess[s].offered.by \in DOMAIN sess

====
